---- MODULE Spec2Model ----
(***************************************************************************)
(* Model of aprl/envs/multi_agent.py: the agent-curry wrapper (CurryEnv),  *)
(* the vectorized multi-agent adapter (_DictToTuple over a Dummy/Subproc   *)
(* VecEnv), and the pure helpers flatten_space, _tuple_to_dict,            *)
(* _dict_to_tuple and tuple_transpose.                                     *)
(*                                                                         *)
(* Python sequences are TLA+ sequences; Python indices are 0-based and are *)
(* kept 0-based in every operator that takes an index (element i of a      *)
(* Python sequence s is s[i + 1] here).  A call that raises is modelled by *)
(* a result record whose status names the exception.                       *)
(***************************************************************************)
EXTENDS Integers, Sequences, FiniteSets, TLC

\* ---------------------------------------------------------------- bounds
MaxAgents == 3
MaxEnvs == 2
MaxVecAgents == 2
MaxSpaces == 3
MaxLen == 3
MaxKey == 2
MaxOuter == 2
MaxInner == 2

\* ------------------------------------------------------------- variables
VARIABLES
    \* CurryEnv and the environment it wraps
    env_num_agents,   \* env.num_agents of the wrapped environment (N)
    _agent_to_fix,    \* self._agent_to_fix
    num_agents,       \* self.num_agents of the curried environment
    _last_obs,        \* self._last_obs
    _last_reward,     \* self._last_reward
    policyArg,        \* observation of the latest self._agent.get_action call
    policyAct,        \* action the latest get_action call returned
    stepInput,        \* the actions argument of the latest step, as passed
    envActions,       \* action sequence of the latest self.env.step call
    envObs,           \* observations the wrapped env produced last
    envRews,          \* rewards the wrapped env produced last
    ret,              \* what the latest CurryEnv call returned
    \* vectorized adapter
    vcls,             \* "dummy" | "subproc": the VecEnv class passed to _make_vec_multi_env
    fnAgents,         \* fnAgents[e]: num_agents of the env factory e builds
    vstate,           \* "unbuilt" | "built" | "ready" | "waiting" | "failed"
    v_num_agents,     \* venv.num_agents
    v_num_envs,       \* venv.num_envs
    vactions,         \* agent-major actions of the latest step_async
    remoteAct,        \* remoteAct[e]: the action tuple handed to environment e
    envGot,           \* envGot[e]: the action tuple environment e was stepped with
    envRes,           \* envRes[e]: the result environment e has produced
    doneOrder,        \* the environments in the order they finished the latest step
    vret,             \* what the latest adapter call returned
    \* flatten_space
    fspace,           \* the tuple_space argument (its .spaces)
    fret,             \* what flatten_space returned
    \* _tuple_to_dict / _dict_to_tuple
    btuple,           \* a tuple given to _tuple_to_dict
    bdict,            \* a mapping given to _dict_to_tuple
    bsrc,             \* "given" | "from_tuple": where bdict came from
    bret,             \* what _dict_to_tuple returned
    \* tuple_transpose
    txs,              \* the argument
    tret1,            \* tuple_transpose(txs)
    tret2             \* tuple_transpose(tuple_transpose(txs))

curryVars == <<env_num_agents, _agent_to_fix, num_agents, _last_obs, _last_reward,
               policyArg, policyAct, stepInput, envActions, envObs, envRews, ret>>
vecVars == <<vcls, fnAgents, vstate, v_num_agents, v_num_envs, vactions,
             remoteAct, envGot, envRes, doneOrder, vret>>
flatVars == <<fspace, fret>>
bridgeVars == <<btuple, bdict, bsrc, bret>>
transVars == <<txs, tret1, tret2>>
vars == <<curryVars, vecVars, flatVars, bridgeVars, transVars>>

\* ------------------------------------------------------- value universes
None == "None"
\* results of a call: what it returned, or the exception it raised
Ok(v) == [status |-> "ok", val |-> v]
Raise(e) == [status |-> e, val |-> <<>>]
NoCall == [status |-> "none", val |-> <<>>]
NoOp == [op |-> "none", status |-> "ok"]

\* observations of one agent of the wrapped environment
Obs == {"o0", "o1"}
\* actions of one agent: Discrete(2)
Act == {0, 1}
\* The wrapped environment is abstract (MultiAgentEnv.step); here it pays agent k
\* (0-based) for its action a the reward 10 * k + a, so that every position of a
\* reward tuple is told apart; its observations are free.
EnvRewards(actions) == [k \in 1..Len(actions) |-> 10 * (k - 1) + actions[k]]

\* all sequences of length n over S
SeqsOfLen(S, n) == [1..n -> S]
\* all sequences of length at most n over S
SeqsUpTo(S, n) == UNION {SeqsOfLen(S, k) : k \in 0..n}

\* ------------------------------------------------------ Python list ops
\* an insert that appends whatever the index
ListInsertAppends(list, i, x) == Append(list, x)

\* list.insert(i, x): the index is clamped to the list, negative counts from the end
ListInsert(list, i, x) ==
    LET n == Len(list)
        j == IF i < 0 THEN (IF i + n < 0 THEN 0 ELSE i + n)
             ELSE (IF i > n THEN n ELSE i)
    IN  SubSeq(list, 1, j) \o <<x>> \o SubSeq(list, j + 1, n)

\* a pop that leaves the element in place
TuplePopKeeps(input, i) == <<input, input[i + 1]>>

\* _tuple_pop(input, i) for 0 <= i < len(input): (input without element i, element i)
_tuple_pop(input, i) ==
    <<SubSeq(input, 1, i) \o SubSeq(input, i + 2, Len(input)), input[i + 1]>>

\* ---------------------------------------------------------------- idle parts
VecIdle ==
    /\ vcls = "dummy" /\ fnAgents = <<>> /\ vstate = "unbuilt"
    /\ v_num_agents = 0 /\ v_num_envs = 0 /\ vactions = <<>>
    /\ remoteAct = <<>> /\ envGot = <<>> /\ envRes = <<>> /\ doneOrder = <<>>
    /\ vret = NoOp
FlatIdle == fspace = <<>> /\ fret = NoCall
BridgeIdle == btuple = <<>> /\ bdict = <<>> /\ bsrc = "given" /\ bret = NoCall
TransIdle == txs = <<>> /\ tret1 = NoCall /\ tret2 = NoCall
CurryIdle ==
    /\ env_num_agents = 0 /\ _agent_to_fix = 0 /\ num_agents = 0
    /\ _last_obs = None /\ _last_reward = None
    /\ policyArg = "NoQuery" /\ policyAct = -1 /\ stepInput = <<>>
    /\ envActions = <<>> /\ envObs = <<>> /\ envRews = <<>> /\ ret = NoOp

\* ================================================================ CurryEnv
\* CurryEnv.__init__ on an N-agent environment, 1 <= N, fixing agent_idx
CurryInit ==
    /\ env_num_agents \in 1..MaxAgents
    /\ _agent_to_fix \in 0..(env_num_agents - 1)
    /\ num_agents = env_num_agents - 1
    /\ _last_obs = None
    /\ _last_reward = None
    /\ policyArg = "NoQuery" /\ policyAct = -1
    /\ stepInput = <<>> /\ envActions = <<>> /\ envObs = <<>> /\ envRews = <<>>
    /\ ret = [op |-> "init", status |-> "ok"]

\* a reset that forgets to store the fixed agent's observation
CurryResetStale ==
    /\ \E observations \in SeqsOfLen(Obs, env_num_agents) :
         LET p == _tuple_pop(observations, _agent_to_fix)
         IN  /\ envObs' = observations
             /\ ret' = [op |-> "reset", status |-> "ok", obs |-> p[1]]
    /\ UNCHANGED <<env_num_agents, _agent_to_fix, num_agents, _last_obs, _last_reward,
                   policyArg, policyAct, stepInput, envActions, envRews>>
    /\ UNCHANGED <<vecVars, flatVars, bridgeVars, transVars>>

\* CurryEnv.reset
CurryReset ==
    /\ \E observations \in SeqsOfLen(Obs, env_num_agents) :
         LET p == _tuple_pop(observations, _agent_to_fix)
         IN  /\ envObs' = observations
             /\ _last_obs' = p[2]
             /\ ret' = [op |-> "reset", status |-> "ok", obs |-> p[1]]
    /\ UNCHANGED <<env_num_agents, _agent_to_fix, num_agents, _last_reward,
                   policyArg, policyAct, stepInput, envActions, envRews>>
    /\ UNCHANGED <<vecVars, flatVars, bridgeVars, transVars>>

\* CurryEnv.step, the policy and the wrapped environment both returning.
\* actions is the caller's list of num_agents actions; the policy's action and the
\* wrapped environment's observations are theirs to choose; done and infos pass
\* through untouched and are left out.
CurryStep ==
    /\ \E actions \in SeqsOfLen(Act, num_agents), action \in Act,
          observations \in SeqsOfLen(Obs, env_num_agents) :
         LET full == ListInsert(actions, _agent_to_fix, action)
             rewards == EnvRewards(full)
             po == _tuple_pop(observations, _agent_to_fix)
             pr == _tuple_pop(rewards, _agent_to_fix)
         IN  /\ policyArg' = _last_obs
             /\ policyAct' = action
             /\ stepInput' = actions
             /\ envActions' = full
             /\ envObs' = observations
             /\ envRews' = rewards
             /\ _last_obs' = po[2]
             /\ _last_reward' = pr[2]
             /\ ret' = [op |-> "step", status |-> "ok", obs |-> po[1],
                        rews |-> pr[1]]
    /\ UNCHANGED <<env_num_agents, _agent_to_fix, num_agents>>
    /\ UNCHANGED <<vecVars, flatVars, bridgeVars, transVars>>

\* CurryEnv.step before any reset, with a policy that raises on the None it is given:
\* the exception leaves step at its first line
CurryStepPolicyRaises ==
    /\ _last_obs = None
    /\ \E actions \in SeqsOfLen(Act, num_agents) :
         /\ policyArg' = _last_obs
         /\ policyAct' = -1
         /\ stepInput' = actions
         /\ ret' = [op |-> "step", status |-> "policy_error"]
    /\ UNCHANGED <<env_num_agents, _agent_to_fix, num_agents, _last_obs, _last_reward,
                   envActions, envObs, envRews>>
    /\ UNCHANGED <<vecVars, flatVars, bridgeVars, transVars>>

CurrySpecInit == CurryInit /\ VecIdle /\ FlatIdle /\ BridgeIdle /\ TransIdle
CurryNext == CurryReset \/ CurryStep \/ CurryStepPolicyRaises
SpecCurry == CurrySpecInit /\ [][CurryNext]_vars

\* ============================================== _tuple_to_dict / _dict_to_tuple
\* A Python dict with integer keys is a function whose DOMAIN is its key set.
SetMin(S) == CHOOSE m \in S : \A k \in S : m <= k
SetMax(S) == CHOOSE m \in S : \A k \in S : k <= m

\* _tuple_to_dict(tuple): OrderedDict((i, v) for i, v in enumerate(tuple))
_tuple_to_dict(tuple) == [i \in 0..(Len(tuple) - 1) |-> tuple[i + 1]]

\* a conversion that takes the values in key order and never looks for gaps
DictToTupleValues(d) ==
    LET RECURSIVE vals(_)
        vals(K) == IF K = {} THEN <<>>
                   ELSE <<d[SetMin(K)]>> \o vals(K \ {SetMin(K)})
    IN  Ok(vals(DOMAIN d))

\* _dict_to_tuple(d): min() and max() of no keys raise ValueError, the assert raises
\* AssertionError, d[i] of an absent key raises KeyError
_dict_to_tuple(d) ==
    IF DOMAIN d = {} THEN Raise("ValueError")
    ELSE LET min_k == SetMin(DOMAIN d)
             max_k == SetMax(DOMAIN d)
         IN  IF min_k # 0 THEN Raise("AssertionError")
             ELSE IF \E i \in 0..max_k : i \notin DOMAIN d THEN Raise("KeyError")
             ELSE Ok([i \in 1..(max_k + 1) |-> d[i - 1]])

BridgeVals == {"v0", "v1"}
Dicts == UNION {[K -> BridgeVals] : K \in SUBSET (0..MaxKey)}

BridgeInit ==
    /\ btuple \in SeqsUpTo(BridgeVals, MaxLen)
    /\ bdict \in Dicts
    /\ bsrc = "given"
    /\ bret = NoCall

\* bdict := _tuple_to_dict(btuple)
CallTupleToDict ==
    /\ bsrc = "given" /\ bret.status = "none"
    /\ bdict' = _tuple_to_dict(btuple)
    /\ bsrc' = "from_tuple"
    /\ UNCHANGED <<btuple, bret>>
    /\ UNCHANGED <<curryVars, vecVars, flatVars, transVars>>

\* bret := _dict_to_tuple(bdict)
CallDictToTuple ==
    /\ bret.status = "none"
    /\ bret' = _dict_to_tuple(bdict)
    /\ UNCHANGED <<btuple, bdict, bsrc>>
    /\ UNCHANGED <<curryVars, vecVars, flatVars, transVars>>

BridgeSpecInit == CurryIdle /\ VecIdle /\ FlatIdle /\ BridgeInit /\ TransIdle
BridgeNext == CallTupleToDict \/ CallDictToTuple
SpecBridge == BridgeSpecInit /\ [][BridgeNext]_vars

\* ============================================================ tuple_transpose
\* a transpose that hands its argument back
TupleTransposeNone(xs) == Ok(xs)

\* tuple_transpose(xs): xs[0] of an empty xs raises IndexError, the assert raises
\* AssertionError
tuple_transpose(xs) ==
    IF Len(xs) = 0 THEN Raise("IndexError")
    ELSE LET inner_len == Len(xs[1])
         IN  IF \E x \in 1..Len(xs) : Len(xs[x]) # inner_len
             THEN Raise("AssertionError")
             ELSE Ok([i \in 1..inner_len |-> [x \in 1..Len(xs) |-> xs[x][i]]])

TransInit ==
    /\ txs \in SeqsUpTo(SeqsUpTo({0, 1}, MaxInner), MaxOuter)
    /\ tret1 = NoCall
    /\ tret2 = NoCall

\* tret1 := tuple_transpose(txs)
CallTranspose ==
    /\ tret1.status = "none"
    /\ tret1' = tuple_transpose(txs)
    /\ UNCHANGED <<txs, tret2>>
    /\ UNCHANGED <<curryVars, vecVars, flatVars, bridgeVars>>

\* tret2 := tuple_transpose(tret1)
CallTransposeAgain ==
    /\ tret1.status = "ok" /\ tret2.status = "none"
    /\ tret2' = tuple_transpose(tret1.val)
    /\ UNCHANGED <<txs, tret1>>
    /\ UNCHANGED <<curryVars, vecVars, flatVars, bridgeVars>>

TransSpecInit == CurryIdle /\ VecIdle /\ FlatIdle /\ BridgeIdle /\ TransInit
TransNext == CallTranspose \/ CallTransposeAgain
SpecTranspose == TransSpecInit /\ [][TransNext]_vars

\* ============================================================== flatten_space
\* gym spaces, as records that carry their class in kind
Discrete(n) == [kind |-> "Discrete", n |-> n]
MultiDiscrete(nvec) == [kind |-> "MultiDiscrete", nvec |-> nvec]
\* a one-dimensional Box
Box(low, high) == [kind |-> "Box", low |-> low, high |-> high]
MultiBinary(n) == [kind |-> "MultiBinary", n |-> n]

Spaces == {Discrete(2), Discrete(3), MultiDiscrete(<<2, 2>>),
           Box(<<0>>, <<1>>), Box(<<0, 0>>, <<1, 1>>), MultiBinary(2)}

\* type(space): the class object of a space
ClassOf(space) == [class |-> space.kind]
\* type(obj) for the two sorts of object flatten_space handles: the class of a class
\* object is the metaclass type, that of a space is its kind
TypeName(obj) == IF "class" \in DOMAIN obj THEN "type" ELSE obj.kind
\* isinstance(obj, cls) for the gym space classes, none of which subclasses another
\* of them nor the metaclass
IsInstance(obj, cls) == TypeName(obj) = cls

\* np.concatenate(*arrays, axis=0) of one-dimensional arrays: a single array is taken
\* as the sequence of its scalars (ValueError: zero-dimensional arrays cannot be
\* concatenated, and nothing to concatenate when it is empty); with two or more, the
\* second lands on the axis parameter, which axis=0 names again (TypeError)
NpConcatenateUnpacked(arrays) ==
    IF Len(arrays) = 1 THEN Raise("ValueError") ELSE Raise("TypeError")

\* flatten_space(tuple_space), spaces being tuple_space.spaces.  The functions it
\* returns are named: "identity" for lambda x: x.
flatten_space(spaces) ==
    LET unique_types == {ClassOf(spaces[k]) : k \in 1..Len(spaces)}
    IN  IF Cardinality(unique_types) > 1 THEN Raise("TypeError")
        ELSE IF unique_types = {} THEN Raise("KeyError")
        ELSE LET type == CHOOSE t \in unique_types : TRUE
             IN  IF IsInstance(type, "Discrete")
                 THEN Ok([flat_space |->
                              MultiDiscrete([k \in 1..Len(spaces) |-> spaces[k].n]),
                          flatten |-> "identity", unflatten |-> "identity"])
                 ELSE IF IsInstance(type, "MultiDiscrete")
                 THEN Ok([flat_space |->
                              MultiDiscrete([k \in 1..Len(spaces) |-> spaces[k].nvec]),
                          flatten |-> "identity", unflatten |-> "identity"])
                 ELSE IF IsInstance(type, "Box")
                 THEN NpConcatenateUnpacked([k \in 1..Len(spaces) |-> spaces[k].low])
                 ELSE Raise("NotImplementedError")

FlatInit ==
    /\ fspace \in SeqsUpTo(Spaces, MaxSpaces)
    /\ fret = NoCall

\* fret := flatten_space(Tuple(fspace))
CallFlattenSpace ==
    /\ fret.status = "none"
    /\ fret' = flatten_space(fspace)
    /\ UNCHANGED fspace
    /\ UNCHANGED <<curryVars, vecVars, bridgeVars, transVars>>

FlatSpecInit == CurryIdle /\ VecIdle /\ FlatInit /\ BridgeIdle /\ TransIdle
FlatNext == CallFlattenSpace
SpecFlatten == FlatSpecInit /\ [][FlatNext]_vars

\* ================================================ vectorized multi-agent adapter
\* _make_vec_multi_env(cls)(env_fns), then reset / step_async / step_wait of the
\* _DictToTuple it returns.  The VecEnv underneath (DummyVecEnv or SubprocVecEnv)
\* hands action tuple e to environment e and files what environment e produced under
\* index e; the dummy one steps the environments in index order, the subprocess one
\* lets them finish in any order.  Environments are numbered from 1 here.

\* Environment e (built by factory e) is a deterministic counter: it pays agent k
\* (0-based) for its action a the reward 100 * e + 10 * k + a and shows it the
\* observation 1000 more.
VecEnvRewards(e, act) == [k \in 1..Len(act) |-> 100 * e + 10 * (k - 1) + act[k]]
VecEnvObs(e, act) == [k \in 1..Len(act) |-> 1000 + 100 * e + 10 * (k - 1) + act[k]]
\* what environment e shows its n agents at reset
VecEnvResetObs(e, n) == [k \in 1..n |-> 1000 + 100 * e + 10 * (k - 1)]

\* a transpose that leaves the array as it is
NpTransposeNone(m) == m

\* ndarray.T of a two-dimensional array with at least one row
NpTranspose(m) == [j \in 1..Len(m[1]) |-> [i \in 1..Len(m) |-> m[i][j]]]

VecInit ==
    /\ vcls \in {"dummy", "subproc"}
    /\ fnAgents \in UNION {SeqsOfLen(0..MaxVecAgents, n) : n \in 1..MaxEnvs}
    /\ vstate = "unbuilt"
    /\ v_num_agents = 0 /\ v_num_envs = 0
    /\ vactions = <<>> /\ remoteAct = <<>> /\ envGot = <<>> /\ envRes = <<>>
    /\ doneOrder = <<>>
    /\ vret = NoOp

\* f(env_fns) of _make_vec_multi_env: each factory is decorated with _TupleToDict,
\* cls(env_fns) takes num_envs from the list and num_agents and the spaces from the
\* first environment alone, and _DictToTuple.__init__ turns the Dict spaces back into
\* Tuples with _dict_to_tuple
MakeVecMultiEnv ==
    /\ vstate = "unbuilt"
    /\ LET n == fnAgents[1]
           spaces == _dict_to_tuple(_tuple_to_dict([k \in 1..n |-> Discrete(2)]))
       IN  IF spaces.status = "ok"
           THEN /\ v_num_envs' = Len(fnAgents)
                /\ v_num_agents' = n
                /\ vstate' = "built"
                /\ vret' = [op |-> "make", status |-> "ok"]
           ELSE /\ vstate' = "failed"
                /\ vret' = [op |-> "make", status |-> spaces.status]
                /\ UNCHANGED <<v_num_envs, v_num_agents>>
    /\ UNCHANGED <<vcls, fnAgents, vactions, remoteAct, envGot, envRes, doneOrder>>
    /\ UNCHANGED <<curryVars, flatVars, bridgeVars, transVars>>

\* _DictToTuple.reset: the VecEnv resets every environment and stacks, for each key
\* of the first environment's observation space, that key's observation of every
\* environment (KeyError when an environment has no such key)
VecReset ==
    /\ vstate \in {"built", "ready"}
    /\ IF \E e \in 1..v_num_envs : fnAgents[e] < v_num_agents
       THEN /\ vstate' = "failed"
            /\ vret' = [op |-> "reset", status |-> "KeyError"]
       ELSE LET obsOf(e) == _tuple_to_dict(VecEnvResetObs(e, fnAgents[e]))
                obs == [k \in 0..(v_num_agents - 1) |->
                           [e \in 1..v_num_envs |-> obsOf(e)[k]]]
            IN  /\ vstate' = "ready"
                /\ vret' = [op |-> "reset", status |-> "ok",
                            obs |-> _dict_to_tuple(obs).val]
    /\ UNCHANGED <<vcls, fnAgents, v_num_agents, v_num_envs, vactions, remoteAct,
                   envGot, envRes, doneOrder>>
    /\ UNCHANGED <<curryVars, flatVars, bridgeVars, transVars>>

\* _DictToTuple.step_async(actions): actions is agent-major, num_agents sequences of
\* num_envs actions; the transposed tuple goes to the VecEnv, which hands its e'th
\* element to environment e
VecStepAsync ==
    /\ vstate \in {"built", "ready"}
    /\ \E actions \in SeqsOfLen(SeqsOfLen(Act, v_num_envs), v_num_agents) :
         LET actions_per_env == tuple_transpose(actions)
         IN  /\ actions_per_env.status = "ok"
             /\ vactions' = actions
             /\ remoteAct' = actions_per_env.val
             /\ envGot' = [e \in 1..v_num_envs |-> <<>>]
             /\ envRes' = [e \in 1..v_num_envs |-> NoCall]
             /\ doneOrder' = <<>>
             /\ vstate' = "waiting"
             /\ vret' = [op |-> "step_async", status |-> "ok"]
    /\ UNCHANGED <<vcls, fnAgents, v_num_agents, v_num_envs>>
    /\ UNCHANGED <<curryVars, flatVars, bridgeVars, transVars>>

\* Environment e takes its step (_TupleToDict.step) with the action tuple it was
\* handed; an environment handed another number of actions than it has agents
\* fails.  The dummy VecEnv steps the environments one after another and stops at
\* the first failure.
VecEnvStep(e) ==
    /\ vstate = "waiting"
    /\ envRes[e].status = "none"
    /\ vcls = "dummy" => \A f \in 1..(e - 1) : envRes[f].status = "ok"
    /\ envGot' = [envGot EXCEPT ![e] = remoteAct[e]]
    /\ envRes' = [envRes EXCEPT ![e] =
                     IF Len(remoteAct[e]) = fnAgents[e]
                     THEN Ok([obs |-> _tuple_to_dict(VecEnvObs(e, remoteAct[e])),
                              rews |-> VecEnvRewards(e, remoteAct[e])])
                     ELSE Raise("env_error")]
    /\ doneOrder' = Append(doneOrder, e)
    /\ UNCHANGED <<vcls, fnAgents, vstate, v_num_agents, v_num_envs, vactions,
                   remoteAct, vret>>
    /\ UNCHANGED <<curryVars, flatVars, bridgeVars, transVars>>

\* _DictToTuple.step_wait: the VecEnv returns once every environment has produced
\* its result (or one has failed), with the observations stacked per key and the
\* rewards stacked per environment, shape (num_envs, num_agents)
VecStepWait ==
    /\ vstate = "waiting"
    /\ \/ \E e \in 1..v_num_envs : envRes[e].status = "env_error"
       \/ \A e \in 1..v_num_envs : envRes[e].status = "ok"
    /\ IF \E e \in 1..v_num_envs : envRes[e].status = "env_error"
       THEN /\ vstate' = "failed"
            /\ vret' = [op |-> "step_wait", status |-> "env_error"]
       ELSE LET obs == [k \in 0..(v_num_agents - 1) |->
                           [e \in 1..v_num_envs |-> envRes[e].val.obs[k]]]
                rews == [e \in 1..v_num_envs |-> envRes[e].val.rews]
            IN  /\ vstate' = "ready"
                /\ vret' = [op |-> "step_wait", status |-> "ok",
                            obs |-> _dict_to_tuple(obs).val,
                            rews |-> NpTranspose(rews)]
    /\ UNCHANGED <<vcls, fnAgents, v_num_agents, v_num_envs, vactions, remoteAct,
                   envGot, envRes, doneOrder>>
    /\ UNCHANGED <<curryVars, flatVars, bridgeVars, transVars>>

VecSpecInit == CurryIdle /\ VecInit /\ FlatIdle /\ BridgeIdle /\ TransIdle
VecNext ==
    \/ MakeVecMultiEnv
    \/ VecReset
    \/ VecStepAsync
    \/ \E e \in 1..v_num_envs : VecEnvStep(e)
    \/ VecStepWait
SpecVec == VecSpecInit /\ [][VecNext]_vars

\* ===================================================================== claims

\* ---- CurryEnv
\* position in the wrapped environment's sequences of the curried environment's
\* k'th entry (1-based), the fixed agent's slot i (0-based) being skipped
Unfixed(k, i) == IF k <= i THEN k ELSE k + 1

\* C1: every step of the curried environment forwards to the wrapped environment
\* exactly N actions, the fixed policy's action at position agent_idx and the
\* caller's N-1 actions in their order at the other positions, and returns the
\* wrapped environment's observations and rewards with position agent_idx removed,
\* the rest in their order.
C1_StepForwardsAndFilters ==
    (ret.op = "step" /\ ret.status = "ok") =>
        LET i == _agent_to_fix
            N == env_num_agents
        IN  /\ Len(stepInput) = N - 1
            /\ Len(envActions) = N
            /\ envActions[i + 1] = policyAct
            /\ \A k \in 1..(N - 1) : envActions[Unfixed(k, i)] = stepInput[k]
            /\ Len(ret.obs) = N - 1
            /\ \A k \in 1..(N - 1) : ret.obs[k] = envObs[Unfixed(k, i)]
            /\ Len(ret.rews) = N - 1
            /\ \A k \in 1..(N - 1) : ret.rews[k] = envRews[Unfixed(k, i)]

\* the scenario of three agents, index 1 fixed, policy answering 0, step([1, 1])
C1_Witness ==
    /\ ret.op = "step" /\ ret.status = "ok"
    /\ env_num_agents = 3 /\ _agent_to_fix = 1
    /\ policyAct = 0 /\ stepInput = <<1, 1>> /\ envActions = <<1, 0, 1>>
    /\ ret.rews = <<envRews[1], envRews[3]>>

\* C2: the curried environment has one agent fewer than the wrapped one, and every
\* observation sequence reset returns and every observation and reward sequence
\* step returns has as many entries as the curried environment has agents.
C2_LengthsMatchNumAgents ==
    /\ num_agents = env_num_agents - 1
    /\ ret.op = "reset" => Len(ret.obs) = num_agents
    /\ (ret.op = "step" /\ ret.status = "ok") =>
           (Len(ret.obs) = num_agents /\ Len(ret.rews) = num_agents)

\* a step has returned in a curried environment of two agents
C2_Witness ==
    /\ ret.op = "step" /\ ret.status = "ok"
    /\ env_num_agents = 3 /\ num_agents = 2
    /\ Len(ret.obs) = 2 /\ Len(ret.rews) = 2

\* C3: a step of a curried environment that was never reset (no stored last
\* observation) fails: it does not return, the policy is not queried with the
\* unpopulated observation, and nothing is forwarded to the wrapped environment.
\* (A step is a transition that leaves ret.op = "step"; reset leaves "reset".)
C3_StepBeforeResetFails ==
    [][(_last_obs = None /\ ret'.op = "step") =>
           (ret'.status # "ok" /\ policyArg' # None /\ envActions' = envActions)]_vars

\* C10: the observation a step hands the fixed policy is the fixed agent's
\* observation out of what the wrapped environment produced in the call just
\* before, reset or step; and the stored last observation changes in reset and
\* step only.
\* (envObs = <<>> until the wrapped environment has produced its first observations.)
C10_PolicySeesLatestObs ==
    [][/\ (ret'.op = "step" /\ envObs # <<>>) =>
              policyArg' = envObs[_agent_to_fix + 1]
       /\ (_last_obs' # _last_obs) =>
              (ret'.op \in {"reset", "step"} /\ ret'.status = "ok")]_vars

\* a step has handed the policy an observation that the step itself then replaced
C10_Witness ==
    /\ ret.op = "step" /\ ret.status = "ok"
    /\ policyArg = "o1" /\ _last_obs = "o0"
    /\ envObs[_agent_to_fix + 1] = "o0"

\* ---- vectorized adapter
\* C4: after step_async(actions) with agent-major actions and step_wait,
\* environment e has been stepped with (actions[0][e], ..., actions[A-1][e]), and
\* the rewards returned have shape (num_agents, num_envs) with column e holding
\* environment e's rewards, one per agent, in whatever order the environments
\* finished.
C4_ActionsAndRewardsByEnv ==
    (vret.op = "step_wait" /\ vret.status = "ok") =>
        /\ \A e \in 1..v_num_envs :
               envGot[e] = [a \in 1..v_num_agents |-> vactions[a][e]]
        /\ Len(vret.rews) = v_num_agents
        /\ \A a \in 1..v_num_agents :
               /\ Len(vret.rews[a]) = v_num_envs
               /\ \A e \in 1..v_num_envs :
                      vret.rews[a][e] = envRes[e].val.rews[a]

\* two environments of two agents each, the second finishing first
C4_Witness ==
    /\ vret.op = "step_wait" /\ vret.status = "ok"
    /\ vcls = "subproc" /\ v_num_envs = 2 /\ v_num_agents = 2
    /\ doneOrder = <<2, 1>>
    /\ vactions = <<<<0, 1>>, <<0, 0>>>>
    /\ vret.rews = <<<<100, 201>>, <<110, 210>>>>

\* C5: constructing the adapter fails whenever some factory's environment has
\* another num_agents than the first factory's environment.
C5_MismatchFailsConstruction ==
    (vret.op = "make" /\ \E e \in 1..Len(fnAgents) : fnAgents[e] # fnAgents[1]) =>
        vret.status # "ok"

\* ---- flatten_space
\* the kinds flatten_space has a branch for
SupportedKinds == {"Discrete", "MultiDiscrete", "Box"}

\* C6: for every tuple of spaces that all share one supported kind, flatten_space
\* returns its triple without raising and unflatten undoes flatten; for Discrete
\* spaces the combined space is the MultiDiscrete of the per-agent counts in agent
\* order and flatten and unflatten are the identity.
C6_FlattenSupportedKinds ==
    (/\ fret.status # "none"
     /\ Len(fspace) >= 1
     /\ \A k \in 1..Len(fspace) : fspace[k].kind = fspace[1].kind
     /\ fspace[1].kind \in SupportedKinds) =>
        /\ fret.status = "ok"
        /\ fret.val.flatten = "identity" => fret.val.unflatten = "identity"
        /\ fspace[1].kind = "Discrete" =>
               /\ fret.val.flat_space =
                      MultiDiscrete([k \in 1..Len(fspace) |-> fspace[k].n])
               /\ fret.val.flatten = "identity"
               /\ fret.val.unflatten = "identity"

\* ---- _tuple_to_dict / _dict_to_tuple
\* C7: for a sequence of any length, zero included,
\* _dict_to_tuple(_tuple_to_dict(xs)) returns, and returns xs.
C7_BridgeRoundTrip ==
    (bsrc = "from_tuple" /\ bret.status # "none") =>
        (bret.status = "ok" /\ bret.val = btuple)

\* C8: _dict_to_tuple of a mapping whose keys are not exactly 0..max_key fails
\* with the missing-key error (AssertionError of the assert when the least key is
\* not 0, KeyError of d[i] otherwise) and returns nothing; of a mapping whose keys
\* are exactly 0..max_key it returns.
C8_DictToTupleMissingKey ==
    (bret.status # "none" /\ DOMAIN bdict # {}) =>
        LET keys == DOMAIN bdict
            max_key == CHOOSE m \in keys : \A k \in keys : k <= m
        IN  /\ keys # 0..max_key =>
                (bret.status \in {"AssertionError", "KeyError"} /\ bret.val = <<>>)
            /\ keys = 0..max_key =>
                (/\ bret.status = "ok"
                 /\ Len(bret.val) = max_key + 1
                 /\ \A i \in 0..max_key : bret.val[i + 1] = bdict[i])

\* the mapping with keys {0, 2} has been refused
C8_Witness ==
    /\ bsrc = "given" /\ DOMAIN bdict = {0, 2}
    /\ bret.status = "KeyError"

\* ---- tuple_transpose
Rectangular(xs) == \A i, j \in 1..Len(xs) : Len(xs[i]) = Len(xs[j])

\* what the claim says of one rectangular xs once the calls have been made
TransposeLaw(xs) ==
    /\ tret1.status # "none" =>
           /\ tret1.status = "ok"
           /\ Len(tret1.val) = (IF Len(xs) = 0 THEN 0 ELSE Len(xs[1]))
           /\ \A j \in 1..Len(tret1.val) :
                  /\ Len(tret1.val[j]) = Len(xs)
                  /\ \A i \in 1..Len(xs) : tret1.val[j][i] = xs[i][j]
    /\ tret2.status # "none" => (tret2.status = "ok" /\ tret2.val = xs)

\* C9 as stated: for any rectangular xs, tuple_transpose(xs) is the B-by-A
\* sequence with result[j][i] = xs[i][j], and transposing twice returns xs.
C9_TransposeAnyRectangular ==
    Rectangular(txs) => TransposeLaw(txs)

\* C9 amended: the same for rectangular xs with at least one row and at least one
\* column.
C9_TransposeNonEmpty ==
    (/\ Rectangular(txs)
     /\ Len(txs) >= 1
     /\ Len(txs[1]) >= 1) => TransposeLaw(txs)

\* a 2-by-2 sequence that is not its own transpose has been transposed twice
C9_Witness ==
    /\ txs = <<<<0, 1>>, <<0, 0>>>>
    /\ tret1.status = "ok" /\ tret1.val = <<<<0, 0>>, <<1, 0>>>>
    /\ tret2.status = "ok" /\ tret2.val = txs

====
